---------------------------- MODULE Spec2Model ----------------------------
(***************************************************************************)
(* NWIS retrieval tools: the Site Locator (find-sites-output.py) and the   *)
(* Measurement Retriever (get-gw-levels.py).                               *)
(*                                                                         *)
(* Text is modelled at character level: a Python str is a sequence of      *)
(* one-character strings, a file is a sequence of lines.  A Python float   *)
(* is a pair <<m, k>> standing for m / 10^k, kept normalised (no trailing  *)
(* zero digit in the fraction), so that equality of pairs is equality of   *)
(* the floats.  Python list indices are 0-based; the model's are 1-based.  *)
(***************************************************************************)
EXTENDS Integers, Sequences, FiniteSets, TLC

VARIABLES
    fs,            \* the file system: path -> [exists, lines]
    l_pc,          \* Site Locator: position in the script
    text,          \* Site Locator: resp.text.splitlines()
    l_i,           \* Site Locator: index of the next line of the parse loop
    header_found,  \* Site Locator: header_found
    col_index,     \* Site Locator: col_index (column name -> index)
    sites,         \* Site Locator: sites, list of <<site_no, lat, lon>>
    l_printed,     \* Site Locator: the count printed at the end (-1: none)
    r_pc,          \* Measurement Retriever: position in the script
    r_err,         \* Measurement Retriever: the fatal error raised ("" for none)
    chunk_size,    \* Measurement Retriever: CHUNK_SIZE
    svc,           \* the measurement service's tables during the run
    r_read,        \* Measurement Retriever: the file pd.read_csv was given
    r_sites,       \* Measurement Retriever: sites, the identifiers requested
    r_k,           \* Measurement Retriever: number of the next chunk
    calls,         \* Measurement Retriever: remote calls made so far
    gw_frames,     \* Measurement Retriever: gw_frames
    site_frames,   \* Measurement Retriever: site_frames
    gw_df,         \* Measurement Retriever: gw_df
    site_df,       \* Measurement Retriever: site_df
    site_elev,     \* Measurement Retriever: site_elev
    site_well_depth, \* Measurement Retriever: site_well_depth
    out            \* Measurement Retriever: out, the joined table

lvars == <<l_pc, text, l_i, header_found, col_index, sites, l_printed>>

rvars == <<r_pc, r_err, chunk_size, svc, r_read, r_sites, r_k, calls,
           gw_frames, site_frames, gw_df, site_df, site_elev,
           site_well_depth, out>>

vars == <<fs, lvars, rvars>>

-----------------------------------------------------------------------------
(* Bounds of the model *)

MaxLines == 3

MaxSites == 2

MaxChunkSize == 2

-----------------------------------------------------------------------------
(* Characters and strings *)

Digits == {"0", "1", "2", "3", "4", "5", "6", "7", "8", "9"}

\* The characters of the model in code-point order (str comparison, line 84).
Ascii == <<"\t", "#", ",", "-", ".",
           "0", "1", "2", "3", "4", "5", "6", "7", "8", "9",
           "A", "B", "C", "D", "E", "F", "G", "H", "I", "J", "K", "L", "M",
           "N", "O", "P", "Q", "R", "S", "T", "U", "V", "W", "X", "Y", "Z",
           "_",
           "a", "b", "c", "d", "e", "f", "g", "h", "i", "j", "k", "l", "m",
           "n", "o", "p", "q", "r", "s", "t", "u", "v", "w", "x", "y", "z">>

Ord(c) == CHOOSE i \in DOMAIN Ascii : Ascii[i] = c

DigitVal(c) == Ord(c) - Ord("0")

DigitChar(d) == Ascii[Ord("0") + d]

\* str < str
RECURSIVE StrLess(_, _)
StrLess(a, b) ==
    IF b = <<>> THEN FALSE
    ELSE IF a = <<>> THEN TRUE
    ELSE IF a[1] # b[1] THEN Ord(a[1]) < Ord(b[1])
    ELSE StrLess(Tail(a), Tail(b))

\* line.startswith(prefix)
StartsWith(s, prefix) ==
    Len(s) >= Len(prefix) /\ SubSeq(s, 1, Len(prefix)) = prefix

\* s.split(sep) for a one-character separator
RECURSIVE Split(_, _)
Split(s, sep) ==
    LET at == {i \in DOMAIN s : s[i] = sep}
    IN  IF at = {} THEN <<s>>
        ELSE LET p == CHOOSE i \in at : \A j \in at : i <= j
             IN  <<SubSeq(s, 1, p - 1)>> \o Split(SubSeq(s, p + 1, Len(s)), sep)

\* sep.join(parts)
RECURSIVE Join(_, _)
Join(parts, sep) ==
    IF parts = <<>> THEN <<>>
    ELSE IF Len(parts) = 1 THEN parts[1]
    ELSE parts[1] \o <<sep>> \o Join(Tail(parts), sep)

-----------------------------------------------------------------------------
(* Floats: <<m, k>> is m / 10^k *)

RECURSIVE Pow10(_)
Pow10(k) == IF k = 0 THEN 1 ELSE 10 * Pow10(k - 1)

RECURSIVE NormFloat(_)
NormFloat(x) ==
    IF x[1] = 0 THEN <<0, 0>>
    ELSE IF x[2] > 0 /\ x[1] % 10 = 0 THEN NormFloat(<<x[1] \div 10, x[2] - 1>>)
    ELSE x

FloatLess(x, y) == x[1] * Pow10(y[2]) < y[1] * Pow10(x[2])

RECURSIVE NatOf(_)
NatOf(s) ==
    IF s = <<>> THEN 0
    ELSE 10 * NatOf(SubSeq(s, 1, Len(s) - 1)) + DigitVal(s[Len(s)])

RECURSIVE NatStr(_)
NatStr(n) ==
    IF n < 10 THEN <<DigitChar(n)>>
    ELSE NatStr(n \div 10) \o <<DigitChar(n % 10)>>

\* float(s): plain decimal notation, an optional sign, digits and at most one
\* point.  [ok |-> FALSE] is ValueError.  (Exponents, "inf", "nan", blanks
\* and underscores are accepted by Python too; no input of the model has them.)
ParseFloat(s) ==
    LET signed == s # <<>> /\ s[1] \in {"-", "+"}
        body   == IF signed THEN Tail(s) ELSE s
        dots   == {i \in DOMAIN body : body[i] = "."}
        valid  == /\ Cardinality(dots) <= 1
                  /\ \A i \in DOMAIN body \ dots : body[i] \in Digits
                  /\ (DOMAIN body) \ dots # {}
        d      == IF dots = {} THEN Len(body) + 1 ELSE CHOOSE i \in dots : TRUE
        whole  == SubSeq(body, 1, d - 1)
        frac   == SubSeq(body, d + 1, Len(body))
        mag    == NatOf(whole \o frac)
        m      == IF signed /\ s[1] = "-" THEN 0 - mag ELSE mag
    IN  IF valid THEN [ok |-> TRUE, val |-> NormFloat(<<m, Len(frac)>>)]
        ELSE [ok |-> FALSE, val |-> <<0, 0>>]

\* f"{x}" of a float: repr, e.g. 38.2 -> "38.2", 38.0 -> "38.0"
FormatFloat(x) ==
    LET mag   == IF x[1] < 0 THEN 0 - x[1] ELSE x[1]
        whole == NatStr(mag \div Pow10(x[2]))
        fdig  == NatStr(mag % Pow10(x[2]))
        frac  == IF x[2] = 0 THEN <<"0">>
                 ELSE [i \in 1..(x[2] - Len(fdig)) |-> "0"] \o fdig
    IN  (IF x[1] < 0 THEN <<"-">> ELSE <<>>) \o whole \o <<".">> \o frac

-----------------------------------------------------------------------------
(* Site Locator: configuration *)

\* polygon_coords, as (lon, lat) floats
polygon_coords ==
    << <<NormFloat(<<-1205, 1>>), NormFloat(<<380, 1>>)>>,
       <<NormFloat(<<-1200, 1>>), NormFloat(<<380, 1>>)>>,
       <<NormFloat(<<-1200, 1>>), NormFloat(<<385, 1>>)>>,
       <<NormFloat(<<-1205, 1>>), NormFloat(<<385, 1>>)>> >>

output_file == "find-sites-output.txt"

K_site_no == <<"s","i","t","e","_","n","o">>
K_dec_lat_va == <<"d","e","c","_","l","a","t","_","v","a">>
K_dec_long_va == <<"d","e","c","_","l","o","n","g","_","v","a">>
K_dec_coord_datum_cd == <<"d","e","c","_","c","o","o","r","d","_","d","a","t","u","m","_","c","d">>
K_agency_cd == <<"a","g","e","n","c","y","_","c","d">>
K_5s == <<"5","s">>
K_NAD83 == <<"N","A","D","8","3">>
OutHeader == <<"s","i","t","e","_","n","o",",","l","a","t","_","n","a","d","8","3",",","l","o","n","_","n","a","d","8","3">>

\* poly.contains(point) for the configured polygon, an axis-parallel rectangle:
\* the point is in the interior, a point of the boundary is not contained.
PolyContains(lon, lat) ==
    LET lons == {polygon_coords[i][1] : i \in DOMAIN polygon_coords}
        lats == {polygon_coords[i][2] : i \in DOMAIN polygon_coords}
    IN  /\ \E a \in lons : FloatLess(a, lon)
        /\ \E b \in lons : FloatLess(lon, b)
        /\ \E a \in lats : FloatLess(a, lat)
        /\ \E b \in lats : FloatLess(lat, b)


-----------------------------------------------------------------------------
(* The file system *)

Missing == [exists |-> FALSE, lines |-> <<>>]

File(ls) == [exists |-> TRUE, lines |-> ls]

-----------------------------------------------------------------------------
(* Site Locator: the responses of the site service the model draws from *)

T(s) == Join(s, "\t")

S_USGS == <<"U","S","G","S">>
S_NAD27 == <<"N","A","D","2","7">>
S_lat382 == <<"3","8",".","2">>
S_lon1202 == <<"-","1","2","0",".","2">>

LineComment == <<"#","c">>
LineHeader == T(<<K_agency_cd, K_site_no, K_dec_lat_va, K_dec_long_va, K_dec_coord_datum_cd>>)
LineHeaderNoDatum == T(<<K_agency_cd, K_site_no, K_dec_lat_va, K_dec_long_va>>)
LineFormat == T(<< <<"5","s">>, <<"1","5","s">>, <<"1","6","s">>, <<"1","6","s">>, <<"1","0","s">> >>)
RowGood == T(<<S_USGS, <<"0","1">>, S_lat382, S_lon1202, K_NAD83>>)
RowNAD27 == T(<<S_USGS, <<"0","2">>, S_lat382, S_lon1202, S_NAD27>>)
RowOutside == T(<<S_USGS, <<"0","1">>, <<"3","9",".","1">>, S_lon1202, K_NAD83>>)
RowOnEdge == T(<<S_USGS, <<"0","1">>, <<"3","8",".","0">>, S_lon1202, K_NAD83>>)
RowNoDatumField == T(<<S_USGS, <<"A","1">>, <<"3","8",".","3">>, <<"-","1","2","0",".","2","5">> >>)
RowEmptyDatum == T(<<S_USGS, <<"0","0","4">>, <<"3","8",".","4">>, S_lon1202, <<>> >>)
RowFirst5s == T(<< <<"5","s","X">>, <<"0","3">>, S_lat382, S_lon1202, K_NAD83>>)
RowBadLat == T(<<S_USGS, <<"0","1">>, <<"x">>, S_lon1202, K_NAD83>>)

LinePool ==
    { <<>>, LineComment, LineHeader, LineHeaderNoDatum, LineFormat,
      RowGood, RowNAD27, RowOutside, RowOnEdge, RowNoDatumField,
      RowEmptyDatum, RowFirst5s, RowBadLat }

Responses == UNION { [1..n -> LinePool] : n \in 0..MaxLines }

-----------------------------------------------------------------------------
(* Site Locator: parsing *)

\* col_index = {name: i for i, name in enumerate(cols)}
MakeColIndex(cols) ==
    [name \in {cols[i] : i \in DOMAIN cols} |->
        CHOOSE i \in DOMAIN cols :
            cols[i] = name /\ \A j \in DOMAIN cols : cols[j] = name => j <= i]

\* The try block of the parse loop; ok = FALSE is the except branch
\* (KeyError, IndexError, ValueError).
ParseRow(ci, line) ==
    LET parts  == Split(line, "\t")
        has(c) == c \in DOMAIN ci /\ ci[c] <= Len(parts)
        lat    == IF has(K_dec_lat_va) THEN ParseFloat(parts[ci[K_dec_lat_va]])
                  ELSE [ok |-> FALSE, val |-> <<0, 0>>]
        lon    == IF has(K_dec_long_va) THEN ParseFloat(parts[ci[K_dec_long_va]])
                  ELSE [ok |-> FALSE, val |-> <<0, 0>>]
    IN  [ok      |-> has(K_site_no) /\ lat.ok /\ lon.ok,
         site_no |-> IF has(K_site_no) THEN parts[ci[K_site_no]] ELSE <<>>,
         lat     |-> lat.val,
         lon     |-> lon.val,
         datum   |-> IF has(K_dec_coord_datum_cd)
                     THEN parts[ci[K_dec_coord_datum_cd]] ELSE <<>>]

\* (mutant) the datum code is not looked at
DatumAccepted_Any(datum) == TRUE

\* not (datum and datum != "NAD83")
DatumAccepted(datum) == ~(datum # <<>> /\ datum # K_NAD83)

\* line.startswith("agency_cd") or line.startswith("5s")
IsFormatRow(line) == StartsWith(line, K_agency_cd) \/ StartsWith(line, K_5s)

\* not line or line.startswith("#")
IsCommentOrBlank(line) == line = <<>> \/ StartsWith(line, <<"#">>)

-----------------------------------------------------------------------------
(* Site Locator: output *)

\* tuple comparison of (site_no, lat, lon)
TupleLess(a, b) ==
    \/ StrLess(a[1], b[1])
    \/ a[1] = b[1] /\ FloatLess(a[2], b[2])
    \/ a[1] = b[1] /\ a[2] = b[2] /\ FloatLess(a[3], b[3])

SetOf(seq) == {seq[i] : i \in DOMAIN seq}

\* sorted(S) of a set of tuples
RECURSIVE Sorted(_)
Sorted(S) ==
    IF S = {} THEN <<>>
    ELSE LET lo == CHOOSE x \in S : \A y \in S \ {x} : TupleLess(x, y)
         IN  <<lo>> \o Sorted(S \ {lo})

\* f"{site_no},{lat},{lon}"
FormatSite(r) == Join(<<r[1], FormatFloat(r[2]), FormatFloat(r[3])>>, ",")

\* (mutant) sorted(sites): the duplicates stay
RECURSIVE RowsToWrite_NoSet(_)
RowsToWrite_NoSet(ss) ==
    IF ss = <<>> THEN <<>>
    ELSE LET lo == CHOOSE i \in DOMAIN ss : \A j \in DOMAIN ss : ~TupleLess(ss[j], ss[i])
         IN  <<ss[lo]>> \o RowsToWrite_NoSet([k \in 1..(Len(ss) - 1) |-> IF k < lo THEN ss[k] ELSE ss[k + 1]])

\* for site_no, lat, lon in sorted(set(sites))
RowsToWrite(ss) == Sorted(SetOf(ss))

\* the lines written to output_file
OutputLines(ss) ==
    <<OutHeader>> \o [i \in 1..Len(RowsToWrite(ss)) |-> FormatSite(RowsToWrite(ss)[i])]

\* len(set(sites))
ReportedCount(ss) == Cardinality(SetOf(ss))

-----------------------------------------------------------------------------
(* Site Locator: the script *)

LocatorInit ==
    /\ l_pc = "request"
    /\ text = <<>>
    /\ l_i = 1
    /\ header_found = FALSE
    /\ col_index = <<>>
    /\ sites = <<>>
    /\ l_printed = -1

\* requests.get raises, or raise_for_status raises: the script ends
L_RequestFails ==
    /\ l_pc = "request"
    /\ l_pc' = "failed"
    /\ UNCHANGED <<fs, text, l_i, header_found, col_index, sites, l_printed, rvars>>

\* resp = requests.get(...); text = resp.text
L_Request ==
    /\ l_pc = "request"
    /\ \E t \in Responses : text' = t
    /\ l_pc' = "parse"
    /\ UNCHANGED <<fs, l_i, header_found, col_index, sites, l_printed, rvars>>

\* one iteration of  for line in text.splitlines()
L_ParseLine ==
    /\ l_pc = "parse"
    /\ l_i <= Len(text)
    /\ l_i' = l_i + 1
    /\ LET line == text[l_i]
           row  == ParseRow(col_index, line)
       IN  IF IsCommentOrBlank(line)
           THEN UNCHANGED <<header_found, col_index, sites>>
           ELSE IF ~header_found
           THEN /\ col_index' = MakeColIndex(Split(line, "\t"))
                /\ header_found' = TRUE
                /\ UNCHANGED sites
           ELSE IF IsFormatRow(line)
           THEN UNCHANGED <<header_found, col_index, sites>>
           ELSE /\ sites' = IF /\ row.ok
                              /\ DatumAccepted(row.datum)
                              /\ PolyContains(row.lon, row.lat)
                           THEN Append(sites, <<row.site_no, row.lat, row.lon>>)
                           ELSE sites
                /\ UNCHANGED <<header_found, col_index>>
    /\ UNCHANGED <<fs, l_pc, text, l_printed, rvars>>

\* with open(output_file, "w") ...; print(...)
L_Write ==
    /\ l_pc = "parse"
    /\ l_i > Len(text)
    /\ fs' = [fs EXCEPT ![output_file] = File(OutputLines(sites))]
    /\ l_printed' = ReportedCount(sites)
    /\ l_pc' = "done"
    /\ UNCHANGED <<text, l_i, header_found, col_index, sites, rvars>>

\* the script ends: the process and its variables are gone; the file and the
\* printed line stay
L_Exit ==
    /\ l_pc = "done"
    /\ l_pc' = "exited"
    /\ text' = <<>>
    /\ l_i' = 1
    /\ header_found' = FALSE
    /\ col_index' = <<>>
    /\ sites' = <<>>
    /\ UNCHANGED <<fs, l_printed, rvars>>

LocatorNext == L_RequestFails \/ L_Request \/ L_ParseLine \/ L_Write \/ L_Exit


-----------------------------------------------------------------------------
(* Measurement Retriever: configuration *)

SITES_FILE == "find-sites-output.csv"

OUT_CSV2 == "get-gw-levels-out-NAVD88.csv"

P_62611 == <<"6","2","6","1","1">>
P_72019 == <<"7","2","0","1","9">>
P_00060 == <<"0","0","0","6","0">>

PCODES_TO_KEEP == {P_62611, P_72019}

Paths == {output_file, SITES_FILE, OUT_CSV2}

K_alt_va == <<"a","l","t","_","v","a">>
K_alt_datum_cd == <<"a","l","t","_","d","a","t","u","m","_","c","d">>
K_well_depth_va == <<"w","e","l","l","_","d","e","p","t","h","_","v","a">>
K_well_depth == <<"w","e","l","l","_","d","e","p","t","h">>
K_land_surface_elev == <<"l","a","n","d","_","s","u","r","f","a","c","e","_","e","l","e","v">>
K_land_surface_elev_datum == <<"l","a","n","d","_","s","u","r","f","a","c","e","_","e","l","e","v","_","d","a","t","u","m">>
K_parm_cd == <<"p","a","r","m","_","c","d">>
K_parameter_cd == <<"p","a","r","a","m","e","t","e","r","_","c","d">>
K_param_cd == <<"p","a","r","a","m","_","c","d">>
K_pcode == <<"p","c","o","d","e">>
K_lev_va == <<"l","e","v","_","v","a">>

-----------------------------------------------------------------------------
(* Measurement Retriever: reading the sites file *)

\* A cell pandas parses as an integer: an optional sign and digits.
IsIntLiteral(s) ==
    LET signed == s # <<>> /\ s[1] \in {"-", "+"}
        body   == IF signed THEN Tail(s) ELSE s
    IN  body # <<>> /\ \A i \in DOMAIN body : body[i] \in Digits

\* str(int(s))
IntStr(s) ==
    LET signed == s # <<>> /\ s[1] \in {"-", "+"}
        mag    == NatOf(IF signed THEN Tail(s) ELSE s)
    IN  (IF signed /\ s[1] = "-" /\ mag # 0 THEN <<"-">> ELSE <<>>) \o NatStr(mag)

\* A column of pd.read_csv followed by .astype(str).tolist(): read_csv gives
\* the column an integer dtype when every cell is an integer literal, and
\* keeps the cells as they are otherwise.  (Cells that are empty or float
\* literals get a float dtype; no file of the model has one.)
ColumnAsStr(cells) ==
    IF cells # <<>> /\ \A i \in DOMAIN cells : IsIntLiteral(cells[i])
    THEN [i \in DOMAIN cells |-> IntStr(cells[i])]
    ELSE cells

\* pd.read_csv(SITES_FILE): the header's names and the cells of each row
ReadCsv(f) ==
    [columns |-> Split(f.lines[1], ","),
     rows    |-> [i \in 1..(Len(f.lines) - 1) |-> Split(f.lines[i + 1], ",")]]

\* sites_df[name], as cells
Column(df, name) ==
    LET c == CHOOSE i \in DOMAIN df.columns :
                 df.columns[i] = name /\ \A j \in DOMAIN df.columns : df.columns[j] = name => i <= j
    IN  [i \in DOMAIN df.rows |-> df.rows[i][c]]

-----------------------------------------------------------------------------
(* Measurement Retriever: chunking *)

Min(a, b) == IF a < b THEN a ELSE b

\* list(chunks(lst, n))
chunks(lst, n) ==
    [k \in 1..((Len(lst) + n - 1) \div n) |->
        SubSeq(lst, (k - 1) * n + 1, Min(k * n, Len(lst)))]

-----------------------------------------------------------------------------
(* Frames.  A frame is [columns, index, rows]: the column names in order,    *)
(* the index label of each row, and each row as a function from column name  *)
(* to cell.  A cell is a string; the empty string is a missing value.        *)

NoFrame == [columns |-> <<>>, index |-> <<>>, rows |-> <<>>]

NA == <<>>

RECURSIVE Flatten(_)
Flatten(seqs) ==
    IF seqs = <<>> THEN <<>> ELSE seqs[1] \o Flatten(Tail(seqs))

\* pd.concat(frames, ignore_index=False) of frames with the same columns
Concat(frames) ==
    [columns |-> frames[1].columns,
     index   |-> Flatten([i \in DOMAIN frames |-> frames[i].index]),
     rows    |-> Flatten([i \in DOMAIN frames |-> frames[i].rows])]

\* df[cols]
Project(df, cols) ==
    [df EXCEPT !.columns = cols,
               !.rows = [i \in DOMAIN df.rows |-> [c \in SetOf(cols) |-> df.rows[i][c]]]]

\* df.rename(columns=f), f a function on the frame's column names
Rename(df, f) ==
    [df EXCEPT !.columns = [i \in DOMAIN df.columns |-> f[df.columns[i]]],
               !.rows = [i \in DOMAIN df.rows |->
                            [c \in {f[d] : d \in SetOf(df.columns)} |->
                                df.rows[i][CHOOSE d \in SetOf(df.columns) : f[d] = c]]]]

\* left.merge(right, on="site_no", how="left"); site_no is the only column
\* name the two frames share
RECURSIVE MergeRows(_, _, _)
MergeRows(lrows, right, extra) ==
    IF lrows = <<>> THEN <<>>
    ELSE LET l       == lrows[1]
             with(r) == [c \in DOMAIN l \cup extra |-> IF c \in DOMAIN l THEN l[c] ELSE r[c]]
             none    == [c \in DOMAIN l \cup extra |-> IF c \in DOMAIN l THEN l[c] ELSE NA]
             hits    == {j \in DOMAIN right.rows : right.rows[j][K_site_no] = l[K_site_no]}
             joined  == Flatten([j \in DOMAIN right.rows |->
                            IF j \in hits THEN <<with(right.rows[j])>> ELSE <<>>])
         IN  (IF hits = {} THEN <<none>> ELSE joined) \o MergeRows(Tail(lrows), right, extra)

LeftMerge(left, right) ==
    LET extra == SelectSeq(right.columns, LAMBDA c : c # K_site_no)
        rows  == MergeRows(left.rows, right, SetOf(extra))
    IN  [columns |-> left.columns \o extra,
         index   |-> [i \in DOMAIN rows |-> NatStr(i - 1)],
         rows    |-> rows]

\* df.to_csv(path, index=False), as lines
ToCsv(df) ==
    <<Join(df.columns, ",")>> \o
    [i \in DOMAIN df.rows |->
        Join([j \in DOMAIN df.columns |-> df.rows[i][df.columns[j]]], ",")]

-----------------------------------------------------------------------------
(* The measurement service.  Its tables hold, for a site, a number of       *)
(* measurement rows (each with a parameter code) and at most one site-info  *)
(* row; a request returns the rows of the sites it names.  The frames carry *)
(* the site identifier as a column named site_no or else as their index.    *)

\* the sites of a request, each once, in the order of the request
RECURSIVE Distinct(_)
Distinct(ids) ==
    IF ids = <<>> THEN <<>>
    ELSE LET front == Distinct(SubSeq(ids, 1, Len(ids) - 1))
             last  == ids[Len(ids)]
         IN  IF last \in SetOf(front) THEN front ELSE Append(front, last)

\* nwis.get_gwlevels(sites=site_chunk, parameterCd="62611")[0]
FetchGw(s, site_chunk) ==
    LET ids  == Distinct(site_chunk)
        cell(id, n, c) == IF c = K_site_no THEN id
                          ELSE IF c = K_lev_va THEN NatStr(n)
                          ELSE s.gw[id][n]
    IN  [columns |-> s.gw_cols,
         index   |-> Flatten([i \in DOMAIN ids |-> [n \in DOMAIN s.gw[ids[i]] |-> ids[i]]]),
         rows    |-> Flatten([i \in DOMAIN ids |->
                        [n \in DOMAIN s.gw[ids[i]] |->
                            [c \in SetOf(s.gw_cols) |-> cell(ids[i], n, c)]]])]

\* nwis.get_info(sites=site_chunk)[0]
FetchInfo(s, site_chunk) ==
    LET ids == SelectSeq(Distinct(site_chunk), LAMBDA id : s.info[id])
    IN  [columns |-> s.site_cols,
         index   |-> ids,
         rows    |-> [i \in DOMAIN ids |->
                        [c \in SetOf(s.site_cols) |->
                            IF c = K_site_no THEN ids[i] ELSE <<"7">>]]]

\* the parameter codes of a site's measurement rows the model draws from
GwPool == { <<>>, <<P_62611>>, <<P_00060>>, <<P_62611, P_00060>> }

\* the columns of the measurement frames the model draws from
GwColsPool ==
    { <<K_site_no, K_parm_cd, K_lev_va>>,
      <<K_parm_cd, K_lev_va>>,
      <<K_site_no, K_lev_va, K_pcode>>,
      <<K_site_no, K_lev_va>> }

\* the columns of the site-info frames the model draws from
SiteColsPool ==
    { <<K_site_no, K_alt_va, K_alt_datum_cd, K_well_depth_va>>,
      <<K_site_no, K_alt_va, K_alt_datum_cd>>,
      <<K_site_no, K_alt_va>>,
      <<K_site_no, K_alt_datum_cd, K_well_depth_va>>,
      <<K_site_no, K_well_depth_va>>,
      <<K_alt_va, K_alt_datum_cd>> }

Services(ids) ==
    [gw : [ids -> GwPool], info : [ids -> BOOLEAN],
     gw_cols : GwColsPool, site_cols : SiteColsPool]

NoService == [gw |-> <<>>, info |-> <<>>, gw_cols |-> <<>>, site_cols |-> <<>>]

-----------------------------------------------------------------------------
(* Measurement Retriever: helpers *)

\* (mutant) every batch's frame is appended, empty or not
AppendNonEmpty_Always(frames, df) == Append(frames, df)

\* frames.append(df) when not df.empty
AppendNonEmpty(frames, df) == IF df.rows = <<>> THEN frames ELSE Append(frames, df)

\* ensure_site_no_col(df): reset_index makes the index the first column,
\* which is then named site_no
ensure_site_no_col(df) ==
    IF K_site_no \in SetOf(df.columns) THEN df
    ELSE [columns |-> <<K_site_no>> \o df.columns,
          index   |-> [i \in DOMAIN df.rows |-> NatStr(i - 1)],
          rows    |-> [i \in DOMAIN df.rows |->
                         [c \in SetOf(df.columns) \cup {K_site_no} |->
                             IF c = K_site_no THEN df.index[i] ELSE df.rows[i][c]]]]

\* [c for c in cs if c in cols]
RECURSIVE Present(_, _)
Present(cs, cols) ==
    IF cs = <<>> THEN <<>>
    ELSE (IF cs[1] \in SetOf(cols) THEN <<cs[1]>> ELSE <<>>) \o Present(Tail(cs), cols)

\* cols_for_elev
ColsForElev(cols) == Present(<<K_site_no, K_alt_va, K_alt_datum_cd>>, cols)

\* the rename of site_elev
RenameElev(c) ==
    IF c = K_alt_va THEN K_land_surface_elev
    ELSE IF c = K_alt_datum_cd THEN K_land_surface_elev_datum
    ELSE c

\* c.lower()
Lower(s) ==
    [i \in DOMAIN s |->
        IF Ord(s[i]) >= Ord("A") /\ Ord(s[i]) <= Ord("Z")
        THEN Ascii[Ord(s[i]) - Ord("A") + Ord("a")] ELSE s[i]]

\* sub in s
Contains(s, sub) ==
    \E i \in 1..(Len(s) - Len(sub) + 1) : SubSeq(s, i, i + Len(sub) - 1) = sub

\* well_depth_cols
WellDepthCols(cols) ==
    SelectSeq(cols, LAMBDA c : Contains(Lower(c), K_well_depth) \/ Lower(c) = K_well_depth_va)

\* site_well_depth
SiteWellDepth(df) ==
    IF WellDepthCols(df.columns) # <<>>
    THEN LET wd_col == WellDepthCols(df.columns)[1]
         IN  Rename(Project(df, <<K_site_no, wd_col>>),
                    [c \in {K_site_no, wd_col} |-> IF c = wd_col THEN K_well_depth ELSE c])
    ELSE [columns |-> <<K_site_no, K_well_depth>>,
          index   |-> df.index,
          rows    |-> [i \in DOMAIN df.rows |->
                         [c \in {K_site_no, K_well_depth} |->
                             IF c = K_site_no THEN df.rows[i][K_site_no] ELSE NA]]]

\* the parameter-code column: parm_cd, else the first alias present
\* (<<>> when there is none: KeyError)
FindPcodeCol(cols) ==
    LET found == Present(<<K_parm_cd, K_parameter_cd, K_param_cd, K_pcode>>, cols)
    IN  IF found = <<>> THEN <<>> ELSE found[1]

\* out[out[pcode_col].isin(PCODES_TO_KEEP)]
FilterPcodes(df, pcode_col) ==
    LET keep == SelectSeq([i \in DOMAIN df.rows |-> i],
                          LAMBDA i : df.rows[i][pcode_col] \in PCODES_TO_KEEP)
    IN  [columns |-> df.columns,
         index   |-> [i \in DOMAIN keep |-> df.index[keep[i]]],
         rows    |-> [i \in DOMAIN keep |-> df.rows[keep[i]]]]

-----------------------------------------------------------------------------
(* Measurement Retriever: the sites files the model draws from: the files    *)
(* the Site Locator writes for up to MaxSites surviving rows, a file without *)
(* a site_no column, and no file at all.                                     *)

F_38_2 == NormFloat(<<382, 1>>)
F_38_3 == NormFloat(<<383, 1>>)
F_m120_2 == NormFloat(<<-1202, 1>>)

SitePool ==
    { << <<"0","1">>, F_38_2, F_m120_2 >>,
      << <<"0","1">>, F_38_3, F_m120_2 >>,
      << <<"A","1">>, F_38_2, F_m120_2 >> }

SiteLists == UNION { [1..n -> SitePool] : n \in 0..MaxSites }

LocatorFiles == { File(OutputLines(ss)) : ss \in SiteLists }

InputFiles ==
    LocatorFiles \cup { Missing, File(<< <<"i","d",",","l","a","t",",","l","o","n">> >>) }

-----------------------------------------------------------------------------
(* Measurement Retriever: the script *)

RetrieverInit ==
    /\ r_pc = "load"
    /\ r_err = ""
    /\ svc = NoService
    /\ r_read = Missing
    /\ r_sites = <<>>
    /\ r_k = 1
    /\ calls = 0
    /\ gw_frames = <<>>
    /\ site_frames = <<>>
    /\ gw_df = NoFrame
    /\ site_df = NoFrame
    /\ site_elev = NoFrame
    /\ site_well_depth = NoFrame
    /\ out = NoFrame

\* an uncaught exception ends the script
Raise(e) == r_pc' = "failed" /\ r_err' = e

\* sites_df = pd.read_csv(SITES_FILE) ... sites = ...tolist(), with its checks.
\* The service's tables are those of the time of the run.
R_Load ==
    /\ r_pc = "load"
    /\ r_read' = fs[SITES_FILE]
    /\ IF ~fs[SITES_FILE].exists
       THEN Raise("FileNotFoundError") /\ UNCHANGED <<r_sites, svc>>
       ELSE IF fs[SITES_FILE].lines = <<>>
       THEN Raise("EmptyDataError") /\ UNCHANGED <<r_sites, svc>>
       ELSE IF K_site_no \notin SetOf(ReadCsv(fs[SITES_FILE]).columns)
       THEN Raise("NoSiteNoColumn") /\ UNCHANGED <<r_sites, svc>>
       ELSE IF Column(ReadCsv(fs[SITES_FILE]), K_site_no) = <<>>
       THEN Raise("NoSiteNumbers") /\ UNCHANGED <<r_sites, svc>>
       ELSE /\ r_sites' = ColumnAsStr(Column(ReadCsv(fs[SITES_FILE]), K_site_no))
            /\ svc' \in Services(SetOf(r_sites'))
            /\ r_pc' = "fetch"
            /\ UNCHANGED r_err
    /\ UNCHANGED <<fs, lvars, chunk_size, r_k, calls, gw_frames, site_frames,
                   gw_df, site_df, site_elev, site_well_depth, out>>

InLoop ==
    r_pc = "fetch" /\ r_k <= Len(chunks(r_sites, chunk_size))

SiteChunk == chunks(r_sites, chunk_size)[r_k]

\* one iteration of  for site_chunk in chunks(sites, CHUNK_SIZE)
R_FetchChunk ==
    /\ InLoop
    /\ gw_frames' = AppendNonEmpty(gw_frames, FetchGw(svc, SiteChunk))
    /\ site_frames' = AppendNonEmpty(site_frames, FetchInfo(svc, SiteChunk))
    /\ calls' = calls + 2
    /\ r_k' = r_k + 1
    /\ UNCHANGED <<fs, lvars, r_pc, r_err, chunk_size, svc, r_read, r_sites,
                   gw_df, site_df, site_elev, site_well_depth, out>>

\* nwis.get_gwlevels raises
R_GwFetchFails ==
    /\ InLoop
    /\ calls' = calls + 1
    /\ Raise("FetchError")
    /\ UNCHANGED <<fs, lvars, chunk_size, svc, r_read, r_sites, r_k, gw_frames,
                   site_frames, gw_df, site_df, site_elev, site_well_depth, out>>

\* nwis.get_info raises
R_InfoFetchFails ==
    /\ InLoop
    /\ gw_frames' = AppendNonEmpty(gw_frames, FetchGw(svc, SiteChunk))
    /\ calls' = calls + 2
    /\ Raise("FetchError")
    /\ UNCHANGED <<fs, lvars, chunk_size, svc, r_read, r_sites, r_k,
                   site_frames, gw_df, site_df, site_elev, site_well_depth, out>>

\* the no-data checks, pd.concat and ensure_site_no_col of both tables
R_Concat ==
    /\ r_pc = "fetch"
    /\ r_k > Len(chunks(r_sites, chunk_size))
    /\ IF gw_frames = <<>>
       THEN Raise("NoGroundwaterData") /\ UNCHANGED <<gw_df, site_df>>
       ELSE /\ gw_df' = ensure_site_no_col(Concat(gw_frames))
            /\ IF site_frames = <<>>
               THEN Raise("NoSiteInfoData") /\ UNCHANGED site_df
               ELSE /\ site_df' = ensure_site_no_col(Concat(site_frames))
                    /\ r_pc' = "project"
                    /\ UNCHANGED r_err
    /\ UNCHANGED <<fs, lvars, chunk_size, svc, r_read, r_sites, r_k, calls,
                   gw_frames, site_frames, site_elev, site_well_depth, out>>

\* site_elev and site_well_depth
R_Project ==
    /\ r_pc = "project"
    /\ IF Len(ColsForElev(site_df.columns)) < 2
       THEN Raise("NoElevationColumns") /\ UNCHANGED <<site_elev, site_well_depth>>
       ELSE /\ site_elev' = Rename(Project(site_df, ColsForElev(site_df.columns)),
                                   [c \in SetOf(ColsForElev(site_df.columns)) |-> RenameElev(c)])
            /\ site_well_depth' = SiteWellDepth(site_df)
            /\ r_pc' = "merge"
            /\ UNCHANGED r_err
    /\ UNCHANGED <<fs, lvars, chunk_size, svc, r_read, r_sites, r_k, calls,
                   gw_frames, site_frames, gw_df, site_df, out>>

\* the two merges
R_Merge ==
    /\ r_pc = "merge"
    /\ out' = LeftMerge(LeftMerge(gw_df, site_elev), site_well_depth)
    /\ r_pc' = "filter"
    /\ UNCHANGED <<fs, lvars, r_err, chunk_size, svc, r_read, r_sites, r_k, calls,
                   gw_frames, site_frames, gw_df, site_df, site_elev, site_well_depth>>

\* (mutant) the table is written before the parameter-code column is looked up
FsAfterWrite_BeforeCheck(f, df) ==
    [f EXCEPT ![OUT_CSV2] =
        File(ToCsv(IF FindPcodeCol(df.columns) = <<>> THEN df
                   ELSE FilterPcodes(df, FindPcodeCol(df.columns))))]

\* the file system after the last section of the script: the parameter-code
\* column is looked up, and only then out_2 is written
FsAfterWrite(f, df) ==
    IF FindPcodeCol(df.columns) = <<>> THEN f
    ELSE [f EXCEPT ![OUT_CSV2] = File(ToCsv(FilterPcodes(df, FindPcodeCol(df.columns))))]

\* pcode_col lookup, filter and out_2.to_csv(OUT_CSV2, index=False)
R_FilterWrite ==
    /\ r_pc = "filter"
    /\ fs' = FsAfterWrite(fs, out)
    /\ IF FindPcodeCol(out.columns) = <<>>
       THEN Raise("NoPcodeColumn")
       ELSE r_pc' = "done" /\ UNCHANGED r_err
    /\ UNCHANGED <<lvars, chunk_size, svc, r_read, r_sites, r_k, calls,
                   gw_frames, site_frames, gw_df, site_df, site_elev,
                   site_well_depth, out>>

RetrieverNext ==
    \/ R_Load
    \/ R_FetchChunk
    \/ R_GwFetchFails
    \/ R_InfoFetchFails
    \/ R_Concat
    \/ R_Project
    \/ R_Merge
    \/ R_FilterWrite

-----------------------------------------------------------------------------
(* Specifications *)

LocatorIdle ==
    /\ l_pc = "exited"
    /\ text = <<>>
    /\ l_i = 1
    /\ header_found = FALSE
    /\ col_index = <<>>
    /\ sites = <<>>
    /\ l_printed = -1

\* the Site Locator alone
InitLocator ==
    /\ fs = [p \in Paths |-> Missing]
    /\ LocatorInit
    /\ RetrieverInit
    /\ chunk_size = 1

SpecLocator == InitLocator /\ [][LocatorNext]_vars

\* the Measurement Retriever alone, on any of the sites files
InitRetriever ==
    /\ fs \in {[[p \in Paths |-> Missing] EXCEPT ![SITES_FILE] = f] : f \in InputFiles}
    /\ LocatorIdle
    /\ RetrieverInit
    /\ chunk_size \in 1..MaxChunkSize

SpecRetriever == InitRetriever /\ [][RetrieverNext]_vars

\* the pipeline: the Site Locator runs, then the Measurement Retriever.  The
\* directory holds no file, or a sites file of an earlier occasion.
StaleFile == File(OutputLines(<< << <<"A","1">>, F_38_2, F_m120_2 >> >>))

Init ==
    /\ fs \in {[[p \in Paths |-> Missing] EXCEPT ![SITES_FILE] = f] : f \in {Missing, StaleFile}}
    /\ LocatorInit
    /\ RetrieverInit
    /\ chunk_size = 1

\* the Site Locator's process has ended
LocatorOver == l_pc \in {"exited", "failed"}

Next ==
    \/ L_RequestFails
    \/ L_Request
    \/ L_ParseLine
    \/ L_Write
    \/ L_Exit
    \/ LocatorOver /\ R_Load
    \/ LocatorOver /\ R_FetchChunk
    \/ LocatorOver /\ R_GwFetchFails
    \/ LocatorOver /\ R_InfoFetchFails
    \/ LocatorOver /\ R_Concat
    \/ LocatorOver /\ R_Project
    \/ LocatorOver /\ R_Merge
    \/ LocatorOver /\ R_FilterWrite

Spec == Init /\ [][Next]_vars

-----------------------------------------------------------------------------
(* Properties of the Site Locator (checked under SpecLocator).  The rows of  *)
(* the response are read here directly from the text, by the header's column *)
(* names, and the polygon is the configured rectangle                        *)
(* -120.5 < lon < -120.0, 38.0 < lat < 38.5.                                 *)

NonComment == {j \in DOMAIN text : text[j] # <<>> /\ text[j][1] # "#"}

\* the header line: the first line that is neither blank nor a comment (0: none)
HeaderAt == IF NonComment = {} THEN 0 ELSE CHOOSE j \in NonComment : \A k \in NonComment : j <= k

\* the first line after the header that is neither blank nor a comment (0: none)
AfterHeaderAt ==
    LET later == {j \in NonComment : j > HeaderAt}
    IN  IF later = {} THEN 0 ELSE CHOOSE j \in later : \A k \in later : j <= k

\* the cell of line j under the column called name: <<cell>>, or <<>> if the
\* header has no such column or the line is too short
SrcCell(j, name) ==
    LET cols  == Split(text[HeaderAt], "\t")
        parts == Split(text[j], "\t")
        at    == {i \in DOMAIN cols : cols[i] = name}
    IN  IF at = {} THEN <<>>
        ELSE LET i == CHOOSE k \in at : \A m \in at : m <= k
             IN  IF i <= Len(parts) THEN <<parts[i]>> ELSE <<>>

SrcHasFields(j) ==
    /\ SrcCell(j, K_site_no) # <<>>
    /\ SrcCell(j, K_dec_lat_va) # <<>> /\ ParseFloat(SrcCell(j, K_dec_lat_va)[1]).ok
    /\ SrcCell(j, K_dec_long_va) # <<>> /\ ParseFloat(SrcCell(j, K_dec_long_va)[1]).ok

SrcTuple(j) ==
    << SrcCell(j, K_site_no)[1],
       ParseFloat(SrcCell(j, K_dec_lat_va)[1]).val,
       ParseFloat(SrcCell(j, K_dec_long_va)[1]).val >>

SrcDatumFine(j) ==
    SrcCell(j, K_dec_coord_datum_cd) \in { <<>>, << <<>> >>, << K_NAD83 >> }

SrcInside(j) ==
    /\ FloatLess(<<-1205, 1>>, SrcTuple(j)[3]) /\ FloatLess(SrcTuple(j)[3], <<-120, 0>>)
    /\ FloatLess(<<38, 0>>, SrcTuple(j)[2]) /\ FloatLess(SrcTuple(j)[2], <<385, 1>>)

\* line j is a data row that passes every filter
SrcSound(j) ==
    /\ HeaderAt # 0 /\ j \in NonComment /\ j > HeaderAt
    /\ SrcHasFields(j) /\ SrcDatumFine(j) /\ SrcInside(j)

\* the rows of the Site Locator's output file, without the header
WrittenRows ==
    IF fs[output_file].exists THEN SetOf(Tail(fs[output_file].lines)) ELSE {}

\* C7: every record collected, and every row written to the output file, comes
\* from a data row of the response whose point is inside the polygon and whose
\* datum code is absent, empty or "NAD83".
C7_LocatorSoundness ==
    /\ l_pc \in {"parse", "done"} =>
           \A i \in DOMAIN sites :
               \E j \in DOMAIN text : j < l_i /\ SrcSound(j) /\ SrcTuple(j) = sites[i]
    /\ l_pc = "done" =>
           \A w \in WrittenRows :
               \E j \in DOMAIN text : SrcSound(j) /\ FormatSite(SrcTuple(j)) = w

\* C7 witness: a file with a row was written from a response that also held a
\* NAD27 row inside the polygon, which is not in the file.
C7_Witness ==
    /\ l_pc = "done"
    /\ WrittenRows # {}
    /\ \E j \in DOMAIN text :
           /\ HeaderAt # 0 /\ j > HeaderAt /\ SrcHasFields(j) /\ SrcInside(j)
           /\ SrcCell(j, K_dec_coord_datum_cd) = << S_NAD27 >>
           /\ FormatSite(SrcTuple(j)) \notin WrittenRows

\* C8: only comment lines, the header and the format-specifier row right after
\* the header are skipped; every other row with an identifier, numeric
\* coordinates, an acceptable datum and a point inside the polygon is written.
C8_LocatorCompleteness ==
    l_pc = "done" =>
        \A j \in DOMAIN text :
            ( /\ SrcSound(j)
              /\ ~(j = AfterHeaderAt /\ IsFormatRow(text[j])) )
            => FormatSite(SrcTuple(j)) \in WrittenRows

\* C9: the output file is the header followed by one row per distinct
\* surviving tuple, in ascending order of (identifier, latitude, longitude),
\* and the count reported is the number of distinct tuples.
C9_SortedSet ==
    l_pc = "done" =>
        LET lines == fs[output_file].lines
            M     == Cardinality(SetOf(sites))
            of(i) == CHOOSE t \in SetOf(sites) : FormatSite(t) = lines[i]
        IN  /\ fs[output_file].exists
            /\ lines[1] = OutHeader
            /\ Len(lines) = 1 + M
            /\ \A t \in SetOf(sites) : \E i \in 2..Len(lines) : lines[i] = FormatSite(t)
            /\ \A i \in 2..Len(lines) : \E t \in SetOf(sites) : lines[i] = FormatSite(t)
            /\ \A i \in 2..Len(lines) : \A k \in 2..Len(lines) :
                   i < k => TupleLess(of(i), of(k))
            /\ l_printed = M

\* C9 witness: two distinct records survived, met in descending order, and the
\* file lists them in ascending order.
C9_Witness ==
    /\ l_pc = "done"
    /\ Len(sites) = 2
    /\ TupleLess(sites[2], sites[1])
    /\ fs[output_file].lines = <<OutHeader, FormatSite(sites[2]), FormatSite(sites[1])>>
    /\ l_printed = 2

-----------------------------------------------------------------------------
(* Properties of the Measurement Retriever (checked under SpecRetriever) *)

Batches == chunks(r_sites, chunk_size)

InputErrors == {"FileNotFoundError", "EmptyDataError", "NoSiteNoColumn", "NoSiteNumbers"}

NoDataErrors == {"NoGroundwaterData", "NoSiteInfoData"}

\* every batch has been fetched, none with an error of the service
LoopFinished ==
    \/ r_pc = "fetch" /\ r_k > Len(Batches)
    \/ r_pc \in {"project", "merge", "filter", "done"}
    \/ r_pc = "failed" /\ r_err \in NoDataErrors \cup {"NoElevationColumns", "NoPcodeColumn"}

\* the run is past the no-data checks, or was ended by one
Aggregated == LoopFinished /\ r_pc # "fetch"

Count(seq, x) == Cardinality({i \in DOMAIN seq : seq[i] = x})

SameBag(a, b) == \A x \in SetOf(a) \cup SetOf(b) : Count(a, x) = Count(b, x)

\* the rows of a frame, each with the site it belongs to (its site_no cell, or
\* its index label when the frame has no such column)
KeyedRows(df) ==
    [i \in DOMAIN df.rows |->
        << IF K_site_no \in SetOf(df.columns) THEN df.rows[i][K_site_no] ELSE df.index[i],
           [c \in SetOf(df.columns) \ {K_site_no} |-> df.rows[i][c]] >>]

\* the joined table exists
Merged == out.columns # <<>>

\* C1: each row of the concatenated measurement table appears exactly once in
\* the table the two left-joins produce.
C1_LeftJoinExactlyOnce ==
    Merged =>
        LET left(r) == [c \in SetOf(gw_df.columns) |-> r[c]]
            joined  == [k \in DOMAIN out.rows |-> left(out.rows[k])]
        IN  SameBag(joined, gw_df.rows)

\* C2: the identifiers the retriever requests are the identifier strings of the
\* Site Locator file it loaded, unchanged.
C2_IdentifiersVerbatim ==
    (r_pc # "load" /\ r_read \in LocatorFiles) =>
        r_sites = [i \in 1..(Len(r_read.lines) - 1) |-> Split(r_read.lines[i + 1], ",")[1]]

\* C3: chunks() cuts the list into contiguous batches of at most B identifiers
\* whose concatenation is the list, and the rows of the batches together are
\* the rows of one request for the whole list, none lost and none twice.
C3_BatchingTransparent ==
    /\ (r_pc # "load" /\ r_sites # <<>>) =>
           /\ Flatten(Batches) = r_sites
           /\ \A k \in DOMAIN Batches : Len(Batches[k]) >= 1 /\ Len(Batches[k]) <= chunk_size
    /\ LoopFinished =>
           /\ SameBag(Flatten([k \in DOMAIN gw_frames |-> KeyedRows(gw_frames[k])]),
                      KeyedRows(FetchGw(svc, r_sites)))
           /\ SameBag(Flatten([k \in DOMAIN site_frames |-> KeyedRows(site_frames[k])]),
                      KeyedRows(FetchInfo(svc, r_sites)))

\* C4: a file that is written has the columns land_surface_elev,
\* land_surface_elev_datum and well_depth, and a run whose site-info table
\* lacks an elevation column ends in a fatal error.
C4_StableSchema ==
    /\ fs[OUT_CSV2].exists =>
           {K_land_surface_elev, K_land_surface_elev_datum, K_well_depth}
               \subseteq SetOf(Split(fs[OUT_CSV2].lines[1], ","))
    /\ (site_df.columns # <<>> /\ ~({K_alt_va, K_alt_datum_cd} \subseteq SetOf(site_df.columns)))
           => r_pc \in {"project", "failed"}

AllGwEmpty == \A k \in DOMAIN Batches : FetchGw(svc, Batches[k]).rows = <<>>

AllInfoEmpty == \A k \in DOMAIN Batches : FetchInfo(svc, Batches[k]).rows = <<>>

\* C5: the run ends with a no-data error exactly when every measurement batch
\* or every site-info batch was empty; otherwise it goes on, and a
\* concatenated table has exactly the rows of the batches, in order.
C5_EmptyBatches ==
    Aggregated =>
        /\ (r_err \in NoDataErrors) <=> (AllGwEmpty \/ AllInfoEmpty)
        /\ (r_err = "NoGroundwaterData") <=> AllGwEmpty
        /\ ~AllGwEmpty =>
               /\ KeyedRows(gw_df) = Flatten([k \in DOMAIN Batches |-> KeyedRows(FetchGw(svc, Batches[k]))])
               /\ \A k \in DOMAIN gw_frames : gw_frames[k].rows # <<>>
        /\ (~AllGwEmpty /\ ~AllInfoEmpty) =>
               /\ KeyedRows(site_df) = Flatten([k \in DOMAIN Batches |-> KeyedRows(FetchInfo(svc, Batches[k]))])
               /\ \A k \in DOMAIN site_frames : site_frames[k].rows # <<>>

\* C5 witness: one batch returned measurement rows and another none, and the
\* run went on past the no-data checks.
C5_Witness ==
    /\ Aggregated /\ r_err = ""
    /\ \E k \in DOMAIN Batches : FetchGw(svc, Batches[k]).rows = <<>>
    /\ \E k \in DOMAIN Batches : FetchGw(svc, Batches[k]).rows # <<>>
    /\ Len(gw_frames) < Len(Batches)

\* C6: a run that ends with a fatal error never writes the output file; the
\* file is written only when every check has passed; the checks of the input
\* file come before the first remote call.
C6_NoPartialOutput ==
    /\ r_err # "" => ~fs[OUT_CSV2].exists
    /\ r_err \in InputErrors => calls = 0
    /\ calls > 0 =>
           /\ r_read.exists
           /\ K_site_no \in SetOf(Split(r_read.lines[1], ","))
           /\ Len(r_read.lines) > 1
    /\ fs[OUT_CSV2].exists =>
           /\ r_pc = "done" /\ r_err = ""
           /\ ~AllGwEmpty /\ ~AllInfoEmpty
           /\ SetOf(site_df.columns) \cap {K_alt_va, K_alt_datum_cd} # {}
           /\ SetOf(out.columns) \cap {K_parm_cd, K_parameter_cd, K_param_cd, K_pcode} # {}

\* C6 witness: the joined table was built, the parameter-code column was not
\* found under any alias, and no file was written.
C6_Witness ==
    /\ r_pc = "failed" /\ r_err = "NoPcodeColumn"
    /\ out.rows # <<>>
    /\ ~fs[OUT_CSV2].exists

-----------------------------------------------------------------------------
(* Property of the pipeline (checked under Spec) *)

\* C10: when the Site Locator has run and the Measurement Retriever has loaded
\* its input, the file it loaded is the file the Site Locator wrote.
C10_PipelineCoupling ==
    (l_pc = "exited" /\ r_pc # "load") => r_read = fs[output_file]

=============================================================================
